---- MODULE Spec2Model ----
(***************************************************************************)
(* The research-plan store of deep-research-exp: the update_research_plan  *)
(* tool (src/tools/plan.py) and the document .research_plan.json it reads, *)
(* merges, sorts and rewrites on every call.                               *)
(*                                                                         *)
(* A TODO item is a Python dict, modelled as a function from the keys it   *)
(* holds to their values; a key that is absent from the dict is absent     *)
(* from the function's domain, a key bound to Python's None is bound to    *)
(* the value None below.  An ordered dict is a sequence of <<key, value>>  *)
(* pairs with pairwise distinct keys, in insertion order.                  *)
(*                                                                         *)
(* Further down: the session of src/main.py (cleanup, the Monitor thread,  *)
(* crew.kickoff, the report) with the write of the store taken one file    *)
(* operation at a time, and the tools of src/tools/web_search.py and       *)
(* src/tools/web_research.py that call the external service.               *)
(***************************************************************************)
EXTENDS Integers, Sequences, FiniteSets, TLC

VARIABLES
    file,         \* the content of .research_plan.json
    now,          \* the wall clock read by time.strftime
    todos,        \* argument todos of the latest call of update_research_plan
    explanation,  \* argument explanation of the latest call
    prev,         \* the content of the file when the latest call started
    result,       \* what the latest call gave back to its caller
    pc,           \* the Orchestrator: "idle" between calls, "returned" holding a result
    inserted,     \* history: the ids of the plan in the order of their first insertion
    writes,       \* history: how each open(storage_file, "w") of the latest call ended
    main,         \* main.py: the position of the main thread
    raising,      \* main.py: the exception that left crew.kickoff(), "" when none
    monitoring,   \* main.py: the global flag the Monitor loops on
    mpc,          \* monitor_plan: the position of the Monitor thread
    last_content, \* monitor_plan: the local last_content
    content,      \* monitor_plan: the local content, what the latest read gave
    display,      \* history: the documents the Monitor has rendered, in order
    tool,         \* the external tool the agent has called, where it is, what it returned
    clock,        \* web_research_tool: time.time() - start_time
    slept,        \* monitor_plan: the half seconds spent in the time.sleep(2) in course
    waited        \* main.py: the half seconds spent in the time.sleep(0.5) in course

\* the variables of the session around the plan store
svars == <<main, raising, monitoring, mpc, last_content, content, display>>

\* the variables of the tools that call the external service
tvars == <<tool, clock>>

\* the sleeps of the session in course
timers == <<slept, waited>>

vars == <<file, now, todos, explanation, prev, result, pc, inserted, writes, svars, tvars, timers>>

----------------------------------------------------------------------------
(* Bounds of the model *)

\* the longest todos argument of one call
MaxTodos == 2

\* the number of calls of one session (the clock ticks once per call)
MaxCalls == 2

----------------------------------------------------------------------------
(* Values *)

\* Python's None (JSON null)
None == "<None>"

Ids == {"a", "b"}

Explanations == {"done"}

\* the fields of a caller's item: absent, null, or a value
Absent == "<absent>"

MkItem(i, s, c) ==
    LET keys == (IF i = Absent THEN {} ELSE {"id"})
                \cup (IF s = Absent THEN {} ELSE {"status"})
                \cup (IF c = Absent THEN {} ELSE {"content"})
    IN  [k \in keys |-> IF k = "id" THEN i ELSE IF k = "status" THEN s ELSE c]

\* the status and content a caller sends with an id: nothing, a status alone,
\* both, or both null
Patches ==
    { <<Absent, Absent>>, <<"in_progress", Absent>>, <<"completed", "X">>, <<None, None>> }

\* items that carry a usable id
IdItems == { MkItem(i, p[1], p[2]) : i \in Ids, p \in Patches }

\* items whose id is missing or empty
IdlessItems ==
    { MkItem(Absent, "pending", "X"), MkItem("", "in_progress", Absent) }

\* items with a field the schema does not name
ExtraItems == { [id |-> "a", note |-> "n"] }

Items == IdItems \cup IdlessItems \cup ExtraItems

RECURSIVE SeqsUpTo(_, _)
SeqsUpTo(S, n) ==
    IF n = 0 THEN {<<>>}
    ELSE LET shorter == SeqsUpTo(S, n - 1)
         IN  shorter \cup { Append(q, x) : q \in {r \in shorter : Len(r) = n - 1}, x \in S }

Inputs == SeqsUpTo(Items, MaxTodos)

----------------------------------------------------------------------------
(* Python dict helpers *)

\* d.get(k, default)
Get(d, k, default) == IF k \in DOMAIN d THEN d[k] ELSE default

\* position of key in an ordered dict, 0 when it is not a key
RECURSIVE IndexOf(_, _, _)
IndexOf(od, key, i) ==
    IF i > Len(od) THEN 0
    ELSE IF od[i][1] = key THEN i
    ELSE IndexOf(od, key, i + 1)

HasKey(od, key) == IndexOf(od, key, 1) # 0

Lookup(od, key) == od[IndexOf(od, key, 1)][2]

\* a slip of SetKey: a list, not a dict, every item is appended
SetKeyAppends(od, key, val) == Append(od, <<key, val>>)

\* a slip of SetKey: an existing key is deleted and inserted again, so it goes last
SetKeyMovesLast(od, key, val) ==
    Append(SelectSeq(od, LAMBDA kv : kv[1] # key), <<key, val>>)

\* od[key] = val: an existing key keeps its position, a new key goes last
SetKey(od, key, val) ==
    IF HasKey(od, key)
    THEN [od EXCEPT ![IndexOf(od, key, 1)] = <<key, val>>]
    ELSE Append(od, <<key, val>>)

\* list(od.values())
Values(od) == [i \in 1..Len(od) |-> od[i][2]]

\* a slip of UpdateNonNull: rec.update(todo), nulls included
UpdateAll(rec, todo) ==
    [k \in (DOMAIN rec) \cup (DOMAIN todo) |-> IF k \in DOMAIN todo THEN todo[k] ELSE rec[k]]

\* rec.update({k: v for k, v in todo.items() if v is not None})
UpdateNonNull(rec, todo) ==
    LET set == {k \in DOMAIN todo : todo[k] # None}
    IN  [k \in (DOMAIN rec) \cup set |-> IF k \in set THEN todo[k] ELSE rec[k]]

----------------------------------------------------------------------------
(* The stored document *)

\* what .research_plan.json can hold.  kind:
\*   "absent"      no such file
\*   "unreadable"  the file exists and open() fails
\*   "corrupt"     the bytes are not JSON (garbage, or a truncated write)
\*   "empty"       the file holds no byte (open(storage_file, "w") has truncated it)
\*   "notobject"   JSON whose top level is not an object
\*   "badentry"    an object whose todos holds an entry that is not an object
\*   "object"      an object with explanation, updated_at and a todos list of objects
NoDoc(kind) == [kind |-> kind, explanation |-> "", updated_at |-> 0, todos |-> <<>>]

Doc(e, t, list) == [kind |-> "object", explanation |-> e, updated_at |-> t, todos |-> list]

\* the Monitor's last_content = None, and its content before any read
NoContent == NoDoc("none")

\* what a session may find on disk when it starts
InitFiles ==
    { NoDoc("absent"), NoDoc("unreadable"), NoDoc("corrupt"), NoDoc("notobject"),
      NoDoc("badentry"),
      Doc("old", 0, << [status |-> "pending", content |-> "X"] >>),
      Doc("old", 0, << [id |-> "b", status |-> "completed", content |-> "X"] >>) }

----------------------------------------------------------------------------
(* update_research_plan, step by step *)

\* existing_todos = {todo["id"]: todo for todo in data.get("todos", [])}
RECURSIVE FromList(_, _, _)
FromList(list, i, od) ==
    IF i > Len(list) THEN od
    ELSE FromList(list, i + 1, SetKey(od, list[i]["id"], list[i]))

\* a slip of LoadExisting: no except clause, a decode failure leaves the function
LoadExistingNoExcept(f) ==
    CASE f.kind = "absent"     -> [exc |-> "", existing |-> <<>>]
      [] f.kind = "unreadable" -> [exc |-> "PermissionError", existing |-> <<>>]
      [] f.kind = "corrupt"    -> [exc |-> "JSONDecodeError", existing |-> <<>>]
      [] f.kind = "empty"      -> [exc |-> "JSONDecodeError", existing |-> <<>>]
      [] f.kind = "notobject"  -> [exc |-> "AttributeError", existing |-> <<>>]
      [] f.kind = "badentry"   -> [exc |-> "TypeError", existing |-> <<>>]
      [] OTHER ->
            IF \E i \in 1..Len(f.todos) : "id" \notin DOMAIN f.todos[i]
            THEN [exc |-> "KeyError", existing |-> <<>>]
            ELSE [exc |-> "", existing |-> FromList(f.todos, 1, <<>>)]

\* the load of the existing document: the exception that leaves the function
\* ("" when none does) and the ordered dict existing_todos
LoadExisting(f) ==
    CASE f.kind = "absent"     -> [exc |-> "", existing |-> <<>>]
      [] f.kind = "unreadable" -> [exc |-> "PermissionError", existing |-> <<>>]
      [] f.kind = "corrupt"    -> [exc |-> "", existing |-> <<>>]
      [] f.kind = "empty"      -> [exc |-> "", existing |-> <<>>]
      [] f.kind = "notobject"  -> [exc |-> "AttributeError", existing |-> <<>>]
      [] f.kind = "badentry"   -> [exc |-> "TypeError", existing |-> <<>>]
      [] OTHER ->
            IF \E i \in 1..Len(f.todos) : "id" \notin DOMAIN f.todos[i]
            THEN [exc |-> "", existing |-> <<>>]
            ELSE [exc |-> "", existing |-> FromList(f.todos, 1, <<>>)]

\* not todo_id
Falsy(v) == v = None \/ v = ""

\* a slip of MergeOne: an item without a usable id is stored under the key None
MergeOneNoSkip(od, todo) ==
    LET todo_id == IF Falsy(Get(todo, "id", None)) THEN None ELSE todo["id"]
    IN  IF HasKey(od, todo_id)
        THEN SetKey(od, todo_id, UpdateNonNull(Lookup(od, todo_id), todo))
        ELSE SetKey(od, todo_id,
                    [id      |-> todo_id,
                     status  |-> Get(todo, "status", "pending"),
                     content |-> Get(todo, "content", "")])

\* a slip of MergeOne: todo.get("status") and todo.get("content"), no defaults
MergeOneNoDefaults(od, todo) ==
    LET todo_id == Get(todo, "id", None)
    IN  IF Falsy(todo_id) THEN od
        ELSE IF HasKey(od, todo_id)
        THEN SetKey(od, todo_id, UpdateNonNull(Lookup(od, todo_id), todo))
        ELSE SetKey(od, todo_id,
                    [id      |-> todo_id,
                     status  |-> Get(todo, "status", None),
                     content |-> Get(todo, "content", None)])

\* one iteration of the loop over todos
MergeOne(od, todo) ==
    LET todo_id == Get(todo, "id", None)
    IN  IF Falsy(todo_id) THEN od
        ELSE IF HasKey(od, todo_id)
        THEN SetKey(od, todo_id, UpdateNonNull(Lookup(od, todo_id), todo))
        ELSE SetKey(od, todo_id,
                    [id      |-> todo_id,
                     status  |-> Get(todo, "status", "pending"),
                     content |-> Get(todo, "content", "")])

\* for todo in todos: ...
RECURSIVE MergeAll(_, _, _)
MergeAll(od, list, i) ==
    IF i > Len(list) THEN od
    ELSE MergeAll(MergeOne(od, list[i]), list, i + 1)

\* status_priority.get(status, 999)
StatusPriority(s) ==
    CASE s = "in_progress" -> 0
      [] s = "pending"     -> 1
      [] s = "completed"   -> 2
      [] s = "cancelled"   -> 3
      [] OTHER             -> 999

\* key=lambda x: status_priority.get(x.get("status", "pending"), 999)
SortKey(x) == StatusPriority(Get(x, "status", "pending"))

\* a slip of InsertByKey: x goes before the elements whose key equals its own
RECURSIVE InsertBeforeEqual(_, _)
InsertBeforeEqual(sorted, x) ==
    IF sorted = <<>> THEN <<x>>
    ELSE IF SortKey(sorted[Len(sorted)]) < SortKey(x) THEN Append(sorted, x)
    ELSE Append(InsertBeforeEqual(SubSeq(sorted, 1, Len(sorted) - 1), x), sorted[Len(sorted)])

\* x goes after every element whose key is not greater than its own
RECURSIVE InsertByKey(_, _)
InsertByKey(sorted, x) ==
    IF sorted = <<>> THEN <<x>>
    ELSE IF SortKey(sorted[Len(sorted)]) <= SortKey(x) THEN Append(sorted, x)
    ELSE Append(InsertByKey(SubSeq(sorted, 1, Len(sorted) - 1), x), sorted[Len(sorted)])

\* sorted(list, key=...): Python's sort is stable
RECURSIVE SortedFrom(_, _, _)
SortedFrom(list, i, acc) ==
    IF i > Len(list) THEN acc
    ELSE SortedFrom(list, i + 1, InsertByKey(acc, list[i]))

Sorted(list) == SortedFrom(list, 1, <<>>)

\* a slip of StatusCounts: status_counts[status] = 1, the count is not added up
RECURSIVE StatusCountsLast(_, _, _)
StatusCountsLast(list, i, od) ==
    IF i > Len(list) THEN od
    ELSE LET status == Get(list[i], "status", "pending")
         IN  StatusCountsLast(list, i + 1, SetKey(od, status, 1))

\* status_counts, an ordered dict from status to count
RECURSIVE StatusCounts(_, _, _)
StatusCounts(list, i, od) ==
    IF i > Len(list) THEN od
    ELSE LET status == Get(list[i], "status", "pending")
             count  == IF HasKey(od, status) THEN Lookup(od, status) ELSE 0
         IN  StatusCounts(list, i + 1, SetKey(od, status, count + 1))

\* what a call gives back.  kind:
\*   "none"        no call yet
\*   "empty"       the string "Cannot update research plan: todos list is empty..."
\*   "summary"     the string "Research plan updated successfully. ..."
\*   "save_failed" the string "Failed to save research plan: ..."
\*   "raised"      no string: exception exc left the function
NoResult(kind, exc) ==
    [kind |-> kind, exc |-> exc, explanation |-> "", total |-> 0, counts |-> <<>>]

Summary(e, todo_list) ==
    [kind |-> "summary", exc |-> "", explanation |-> e, total |-> Len(todo_list),
     counts |-> StatusCounts(todo_list, 1, <<>>)]

\* how the write of the file ends: the write succeeds, open() fails before
\* anything is written, or the write fails after open() has truncated the file
IoOutcomes == {"ok", "open_fails", "write_fails"}

\* a slip of SaveFailed: no except clause around the write, the error leaves
\* the function
SaveFailedRaises == NoResult("raised", "OSError")

\* except Exception as e: return "Failed to save research plan: ..."
SaveFailed == NoResult("save_failed", "")

\* the with statement is entered once per call, in no loop
WriteAttempts(io) == <<io>>

\* a slip of Rejected: no validation of the input
RejectedNever(t) == FALSE

\* if not todos or len(todos) == 0
Rejected(t) == Len(t) = 0

\* history only: the ids of t that carry a usable id, each once, in input order
RECURSIVE FirstIds(_, _, _)
FirstIds(t, i, acc) ==
    IF i > Len(t) THEN acc
    ELSE LET v == Get(t[i], "id", None)
         IN  FirstIds(t, i + 1,
                      IF v = None \/ v = "" \/ (\E j \in 1..Len(acc) : acc[j] = v)
                      THEN acc ELSE Append(acc, v))

TodoList(f, t) == Sorted(Values(MergeAll(LoadExisting(f).existing, t, 1)))

update_research_plan(t, e, io) ==
    /\ pc = "idle"
    /\ now < MaxCalls
    /\ pc' = "returned"
    /\ now' = now + 1
    /\ todos' = t
    /\ explanation' = e
    /\ prev' = file
    /\ UNCHANGED <<svars, tvars, timers>>
    /\ inserted' = IF ~Rejected(t) /\ LoadExisting(file).exc = "" /\ io = "ok"
                    THEN FirstIds(t, 1, inserted)
                    ELSE inserted
    /\ IF Rejected(t)
       THEN /\ result' = NoResult("empty", "")
            /\ file' = file
            /\ writes' = <<>>
       ELSE IF LoadExisting(file).exc # ""
       THEN /\ result' = NoResult("raised", LoadExisting(file).exc)
            /\ file' = file
            /\ writes' = <<>>
       ELSE LET todo_list == TodoList(file, t)
            IN  /\ writes' = WriteAttempts(io)
                /\ CASE io = "ok" ->
                          /\ file' = Doc(e, now', todo_list)
                          /\ result' = Summary(e, todo_list)
                     [] io = "open_fails" ->
                          /\ file' = file
                          /\ result' = SaveFailed
                     [] OTHER ->
                          /\ file' = NoDoc("corrupt")
                          /\ result' = SaveFailed

\* how an HTTP request ends: exception exc of requests, or ("" for none) a
\* response with status code, a body of some shape and, where the body is
\* the object of a research job, its status and its output
Answer(exc, code, body, status, output) ==
    [exc |-> exc, code |-> code, body |-> body, status |-> status, output |-> output]

NoAnswer == Answer("", 0, "", "", "")

\* no external tool has been called.  name is the tool, pc its position
\* ("idle", "post", "loop", "sleep", "get", "returned", "raised"), key what
\* os.getenv gave, resp how its latest request ended, polls the number of
\* polls it has sent, out what it returned
NoTool ==
    [name |-> "none", pc |-> "idle", key |-> "", resp |-> NoAnswer, polls |-> 0, out |-> ""]

\* the store alone: crew.kickoff() is running, the Monitor and the external
\* tools are left out
NoSession ==
    /\ main = "kickoff"
    /\ raising = ""
    /\ monitoring = FALSE
    /\ mpc = "off"
    /\ last_content = NoContent
    /\ content = NoContent
    /\ display = <<>>
    /\ tool = NoTool
    /\ clock = 0
    /\ slept = 0
    /\ waited = 0

Init ==
    /\ file \in InitFiles
    /\ now = 0
    /\ todos = <<>>
    /\ explanation = ""
    /\ prev = file
    /\ result = NoResult("none", "")
    /\ pc = "idle"
    /\ inserted = FirstIds(file.todos, 1, <<>>)
    /\ writes = <<>>
    /\ NoSession

\* the Orchestrator takes the returned string and goes on to its next step
Return ==
    /\ pc = "returned"
    /\ pc' = "idle"
    /\ todos' = <<>>
    /\ explanation' = ""
    /\ prev' = file
    /\ result' = NoResult("none", "")
    /\ writes' = <<>>
    /\ UNCHANGED <<file, now, inserted, svars, tvars, timers>>

Call ==
    /\ pc = "idle"
    /\ now < MaxCalls
    /\ \E t \in Inputs, e \in Explanations, io \in IoOutcomes : update_research_plan(t, e, io)

Next == Call \/ Return

Spec == Init /\ [][Next]_vars

----------------------------------------------------------------------------
(* A second specification for the claims about order: three ids whose items  *)
(* carry a status only, two stored items that no call touches, one cancelled *)
(* and one of a status the store does not know, and a disk that does not     *)
(* fail, so that documents of up to five items and five priorities are       *)
(* sorted.                                                                   *)

OrderIds == {"a", "b", "c"}

OrderItems ==
    { MkItem(i, s, Absent) : i \in OrderIds,
                             s \in {Absent, "in_progress", "completed"} }

OrderInputs == SeqsUpTo(OrderItems, MaxTodos)

\* no document, or the document an earlier call wrote that inserted a, b, x and
\* y in this order into an empty plan
OrderInitFiles ==
    { NoDoc("absent"),
      Doc("old", 0, << [id |-> "a", status |-> "pending", content |-> ""],
                       [id |-> "b", status |-> "pending", content |-> "X"],
                       [id |-> "x", status |-> "cancelled", content |-> ""],
                       [id |-> "y", status |-> "blocked", content |-> ""] >>) }

OrderInit ==
    /\ file \in OrderInitFiles
    /\ now = 0
    /\ todos = <<>>
    /\ explanation = ""
    /\ prev = file
    /\ result = NoResult("none", "")
    /\ pc = "idle"
    /\ inserted = FirstIds(file.todos, 1, <<>>)
    /\ writes = <<>>
    /\ NoSession

OrderCall ==
    /\ pc = "idle"
    /\ now < MaxCalls
    /\ \E t \in OrderInputs, e \in Explanations : update_research_plan(t, e, "ok")

OrderNext == OrderCall \/ Return

SpecOrder == OrderInit /\ [][OrderNext]_vars

----------------------------------------------------------------------------
(* What the claims speak of *)

\* a call has returned and its write succeeded
Written == pc = "returned" /\ result.kind = "summary"

\* the items of the document the call found, <<>> when it found none it could use
PriorTodos ==
    IF prev.kind = "object" /\ (\A j \in 1..Len(prev.todos) : "id" \in DOMAIN prev.todos[j])
    THEN prev.todos ELSE <<>>

IdSeq(list) == [j \in 1..Len(list) |-> list[j].id]

IdsOf(list) == {list[j].id : j \in 1..Len(list)}

RecordOf(list, i) == list[CHOOSE j \in 1..Len(list) : list[j].id = i]

\* the positions of the input items sent for id i
ItemsFor(i) == {j \in 1..Len(todos) : "id" \in DOMAIN todos[j] /\ todos[j].id = i}

\* the positions of the input items for id i that give field k a non-null value
Given(i, k) == {j \in ItemsFor(i) : k \in DOMAIN todos[j] /\ todos[j][k] # None}

Last(S) == CHOOSE j \in S : \A m \in S : m <= j

First(S) == CHOOSE j \in S : \A m \in S : j <= m

Fields == {"id", "status", "content", "note"}

\* C1: when a call's write succeeds, every record the call found keeps each field
\* that no input item for its id gives a non-null value (the field stays absent or
\* keeps its value), and takes for every other field the value of the last input
\* item that gives one; {id, status} alone never changes content.
PartialMerge ==
    Written =>
        \A i \in IdsOf(PriorTodos) :
            /\ i \in IdsOf(file.todos)
            /\ LET old == RecordOf(PriorTodos, i)
                   new == RecordOf(file.todos, i)
               IN  \A k \in Fields :
                       IF Given(i, k) = {}
                       THEN /\ (k \in DOMAIN new) = (k \in DOMAIN old)
                            /\ k \in DOMAIN old => new[k] = old[k]
                       ELSE /\ k \in DOMAIN new
                            /\ new[k] = todos[Last(Given(i, k))][k]

\* C1 witness: an input of {id, status} alone changed the status of a stored
\* record whose content is "X", and the content is still "X"
PartialMergeWitness ==
    /\ Written
    /\ Len(todos) = 1
    /\ DOMAIN todos[1] = {"id", "status"}
    /\ todos[1].status # None
    /\ todos[1].id \in IdsOf(PriorTodos)
    /\ RecordOf(PriorTodos, todos[1].id).content = "X"
    /\ RecordOf(PriorTodos, todos[1].id).status # todos[1].status
    /\ RecordOf(file.todos, todos[1].id).status = todos[1].status
    /\ RecordOf(file.todos, todos[1].id).content = "X"

\* the status priorities as the specification of the plan document states them
ClaimedPriority(s) ==
    IF s = "in_progress" THEN 0
    ELSE IF s = "pending" THEN 1
    ELSE IF s = "completed" THEN 2
    ELSE IF s = "cancelled" THEN 3
    ELSE 999

\* the ids of the document the call found, in its order, then the ids the call
\* inserts, in input order
MergedIds == FirstIds(todos, 1, IdSeq(PriorTodos))

Pos(seq, x) == CHOOSE j \in 1..Len(seq) : seq[j] = x

\* the ids of MergedIds whose record in the written document has priority r
Group(r) ==
    SelectSeq(MergedIds, LAMBDA i : ClaimedPriority(RecordOf(file.todos, i).status) = r)

\* C2: when a call's write succeeds, the written todos are the stable sort by
\* status priority of the prior items in prior order followed by the inserted
\* items in input order: group 0, then 1, 2, 3 and 999, each in merged order; so
\* the priorities never decrease along the document.
SortOrder ==
    Written =>
        /\ IdsOf(file.todos) = {MergedIds[j] : j \in 1..Len(MergedIds)}
        /\ IdSeq(file.todos) = Group(0) \o Group(1) \o Group(2) \o Group(3) \o Group(999)
        /\ \A p, q \in 1..Len(file.todos) :
               p < q => ClaimedPriority(file.todos[p].status)
                            <= ClaimedPriority(file.todos[q].status)

\* C2 witness: five items of the five priorities were written in an order that
\* is not the merged order, the inserted item first
SortOrderWitness ==
    /\ Written
    /\ Len(file.todos) = 5
    /\ IdSeq(file.todos) # MergedIds
    /\ file.todos[1].id \notin IdsOf(PriorTodos)
    /\ file.todos[1].status = "in_progress"
    /\ file.todos[2].status = "pending"
    /\ file.todos[3].status = "completed"
    /\ file.todos[4].status = "cancelled"
    /\ file.todos[5].status = "blocked"

\* C3 as claimed: in every written document two items of the same status stand
\* in the order in which their ids were first inserted into the plan.
InsertionOrderWithinGroup ==
    Written =>
        \A p, q \in 1..Len(file.todos) :
            (p < q /\ file.todos[p].status = file.todos[q].status)
                => Pos(inserted, file.todos[p].id) < Pos(inserted, file.todos[q].id)

\* C3 as amended: in every written document two items of the same status stand
\* in the order they had in the document the call found, an inserted item after
\* every item that was stored, inserted items in input order.
PriorOrderWithinGroup ==
    Written =>
        \A p, q \in 1..Len(file.todos) :
            (p < q /\ file.todos[p].status = file.todos[q].status)
                => Pos(MergedIds, file.todos[p].id) < Pos(MergedIds, file.todos[q].id)

\* C3 witness: two items share a status after having been in different groups,
\* and stand in prior order, which is not the order of their first insertion
PriorOrderWitness ==
    /\ Written
    /\ \E p, q \in 1..Len(file.todos) :
           /\ p < q
           /\ file.todos[p].status = file.todos[q].status
           /\ file.todos[p].id \in IdsOf(PriorTodos)
           /\ file.todos[q].id \in IdsOf(PriorTodos)
           /\ RecordOf(PriorTodos, file.todos[p].id).status
                  # RecordOf(PriorTodos, file.todos[q].id).status
           /\ Pos(inserted, file.todos[q].id) < Pos(inserted, file.todos[p].id)

\* the ids a call inserts: the usable ids of its input that the document it
\* found does not hold
NewIds == {todos[j].id : j \in {m \in 1..Len(todos) : "id" \in DOMAIN todos[m]}}
              \ ({None, ""} \cup IdsOf(PriorTodos))

\* the value of field k of the record inserted for id i: what the first input
\* item for i provides, else the default, unless a later item for i in the same
\* input gives the field a non-null value
InsertedField(i, k, default) ==
    LET later == {j \in Given(i, k) : j > First(ItemsFor(i))}
    IN  IF later = {} THEN Get(todos[First(ItemsFor(i))], k, default)
        ELSE todos[Last(later)][k]

\* C4: when a call's write succeeds, every id of the input that the document
\* found does not hold has a record in the written document, with the status the
\* input provides, "pending" when it provides none, and the content the input
\* provides, "" when it provides none, and with no other field than id, status
\* and content when the id stands once in the input.
NewItemDefaulting ==
    Written =>
        \A i \in NewIds :
            /\ i \in IdsOf(file.todos)
            /\ LET new == RecordOf(file.todos, i)
               IN  /\ new.id = i
                   /\ new.status = InsertedField(i, "status", "pending")
                   /\ new.content = InsertedField(i, "content", "")
                   /\ Cardinality(ItemsFor(i)) = 1
                          => DOMAIN new = {"id", "status", "content"}

\* C4 witness: an input of {id} alone for an id the document did not hold was
\* stored as {id, status "pending", content ""}
NewItemDefaultingWitness ==
    /\ Written
    /\ Len(todos) = 1
    /\ DOMAIN todos[1] = {"id"}
    /\ todos[1].id \in NewIds
    /\ Len(PriorTodos) = 1
    /\ RecordOf(file.todos, todos[1].id)
           = [id |-> todos[1].id, status |-> "pending", content |-> ""]

\* the ids of the stored document, none when the file holds no document
StoredIds(f) ==
    IF f.kind = "object"
    THEN {f.todos[j].id : j \in {m \in 1..Len(f.todos) : "id" \in DOMAIN f.todos[m]}}
    ELSE {}

\* C5 as claimed: once a call has returned, no later step of the session takes
\* an id out of the stored document.
NoItemDisappears == [][now > 0 => StoredIds(file) \subseteq StoredIds(file')]_vars

\* C6: every written document holds each id once, also when the input holds
\* an id twice; it holds the id of every record the call found, and no id that
\* is neither such an id nor a usable id of the input.
IdUnique ==
    Written =>
        /\ \A p, q \in 1..Len(file.todos) : file.todos[p].id = file.todos[q].id => p = q
        /\ IdSeq(file.todos) \in [1..Len(file.todos) -> IdsOf(PriorTodos) \cup NewIds]
        /\ IdsOf(PriorTodos) \subseteq IdsOf(file.todos)

\* C6 witness: the input held an id twice, an id the document found held already
IdUniqueWitness ==
    /\ Written
    /\ Len(todos) = 2
    /\ "id" \in DOMAIN todos[1] /\ "id" \in DOMAIN todos[2]
    /\ todos[1].id = todos[2].id
    /\ todos[1].id \in IdsOf(PriorTodos)
    /\ Len(file.todos) = 2

\* C7: a call with an empty todos returns the error string and leaves the file
\* as it was, whatever it held, explanation and updated_at included.
EmptyInputRejected ==
    (pc = "returned" /\ todos = <<>>) => (result.kind = "empty" /\ file = prev)

\* C7 witness: an empty call has returned while the file holds a document of an
\* earlier time and of another explanation than the call's
EmptyInputWitness ==
    /\ pc = "returned"
    /\ todos = <<>>
    /\ PriorTodos # <<>>
    /\ file.updated_at < now
    /\ file.explanation # explanation

\* an input item with a usable id
HasId(item) == "id" \in DOMAIN item /\ item.id # None /\ item.id # ""

\* the call found no document, or one it reads without raising
Loadable(f) == f.kind \in {"absent", "corrupt", "object"}

\* C8: a call whose input holds an item without a usable id does not fail for
\* it; when its write succeeds the written todos are those of the same call
\* without the id-less items, and no record stands for an id-less item.
MissingIdSkip ==
    (pc = "returned" /\ Loadable(prev) /\ \E j \in 1..Len(todos) : ~HasId(todos[j])) =>
        /\ result.kind \in {"summary", "save_failed"}
        /\ Written =>
               /\ file.todos = TodoList(prev, SelectSeq(todos, HasId))
               /\ \A p \in 1..Len(file.todos) : HasId(file.todos[p])
               /\ Len(file.todos) = Cardinality(IdsOf(PriorTodos) \cup NewIds)

\* C8 witness: an input of one item with an id and one without was written as
\* the one record of the item with an id
MissingIdSkipWitness ==
    /\ Written
    /\ Len(todos) = 2
    /\ ~HasId(todos[1])
    /\ HasId(todos[2])
    /\ PriorTodos = <<>>
    /\ IdSeq(file.todos) = <<todos[2].id>>

\* C9: a call with items that finds a document that does not parse does not
\* fail for it; when its write succeeds the written todos are those the same
\* call writes when it finds no document, records of ids of the input only.
CorruptRecovery ==
    (pc = "returned" /\ prev.kind = "corrupt" /\ todos # <<>>) =>
        /\ result.kind \in {"summary", "save_failed"}
        /\ Written =>
               /\ file.todos = TodoList(NoDoc("absent"), todos)
               /\ IdsOf(file.todos) = NewIds

\* C9 witness: a document with an item was stored, a failed write left the file
\* unparsable, and the next call wrote exactly the one item of its input
CorruptRecoveryWitness ==
    /\ Written
    /\ prev.kind = "corrupt"
    /\ Len(inserted) = 2
    /\ Len(todos) = 1
    /\ IdSeq(file.todos) = <<todos[1].id>>

\* C10 as claimed: whatever the file holds, a call returns a string and no
\* exception leaves it.
NeverRaises == pc = "returned" => result.kind # "raised"

----------------------------------------------------------------------------
\* a write of the latest call failed
WriteFailed == \E j \in 1..Len(writes) : writes[j] # "ok"

\* C11: when the write of the document fails, the call returns the string
\* that describes the failure, not the success summary, no exception leaves
\* it, and it has opened the file for writing exactly once.
PersistFailureReported ==
    (pc = "returned" /\ WriteFailed)
        => /\ result.kind = "save_failed"
           /\ Len(writes) = 1

\* a call that found a plan on disk has failed to write after open()
PersistFailureWitness ==
    /\ pc = "returned"
    /\ prev.kind = "object"
    /\ writes = <<"write_fails">>
    /\ result.kind = "save_failed"

----------------------------------------------------------------------------
(* A third specification for the claim about sending an input twice: the     *)
(* Orchestrator keeps the input of a call that wrote the plan and calls      *)
(* again with it, under another explanation, on a disk that does not fail.   *)

ResendExplanations == {"again"}

ResendFirst ==
    /\ pc = "idle"
    /\ now < MaxCalls
    /\ result.kind = "none"
    /\ \E t \in Inputs, e \in Explanations : update_research_plan(t, e, "ok")

\* the Orchestrator reads the summary and decides to send the same input again
Hold ==
    /\ pc = "returned"
    /\ result.kind = "summary"
    /\ pc' = "idle"
    /\ UNCHANGED <<file, now, todos, explanation, prev, result, inserted, writes, svars, tvars, timers>>

Resend ==
    /\ pc = "idle"
    /\ now < MaxCalls
    /\ result.kind = "summary"
    /\ \E e \in ResendExplanations : update_research_plan(todos, e, "ok")

ResendNext == ResendFirst \/ Hold \/ Resend \/ Return

SpecResend == Init /\ [][ResendNext]_vars

\* a step that sends again the input of the call that wrote the plan
Resent ==
    /\ pc = "idle"
    /\ result.kind = "summary"
    /\ pc' = "returned"
    /\ result'.kind = "summary"
    /\ todos' = todos

\* C12 as claimed: a second call with the input of the first leaves the
\* stored todos as the first call left them, same items, same fields, same
\* order; explanation and updated_at alone may differ.
ResendIdempotent == [][Resent => file'.todos = file.todos]_vars

\* not part of C12: the same, for inputs whose items hold no key but id,
\* status and content
ResendIdempotentOnSchema ==
    [][(Resent /\ \A j \in 1..Len(todos) : DOMAIN todos[j] \subseteq {"id", "status", "content"})
          => file'.todos = file.todos]_vars

----------------------------------------------------------------------------
\* the statuses of the items of a list, and the items that hold one of them
StatusesOf(list) == {list[j].status : j \in 1..Len(list)}

WithStatus(list, s) == {j \in 1..Len(list) : list[j].status = s}

RECURSIVE SumCounts(_, _)
SumCounts(od, i) == IF i > Len(od) THEN 0 ELSE od[i][2] + SumCounts(od, i + 1)

\* C13: the summary of a successful call gives as total the number of items
\* of the document it wrote, and lists one count per status that occurs in
\* that document, the number of its items with that status; the counts add
\* up to the total.
SummaryCorrect ==
    Written =>
        /\ result.total = Len(file.todos)
        /\ \A j, m \in 1..Len(result.counts) :
               result.counts[j][1] = result.counts[m][1] => j = m
        /\ {result.counts[j][1] : j \in 1..Len(result.counts)} = StatusesOf(file.todos)
        /\ \A j \in 1..Len(result.counts) :
               result.counts[j][2] = Cardinality(WithStatus(file.todos, result.counts[j][1]))
        /\ SumCounts(result.counts, 1) = result.total

\* a call has written a document that holds more items than its input names,
\* two of them with the same status
SummaryCorrectWitness ==
    /\ Written
    /\ Len(file.todos) = 2
    /\ Cardinality(NewIds) = 1
    /\ result.total = 2
    /\ \E j \in 1..Len(result.counts) : result.counts[j][2] = 2

----------------------------------------------------------------------------
(* The session of main.py: the main thread removes the plan an earlier run   *)
(* left, starts the Monitor thread, runs the Orchestrator (crew.kickoff),    *)
(* clears the flag and displays the report.  The Monitor thread polls the    *)
(* file while the Orchestrator rewrites it, so the write of                  *)
(* update_research_plan is taken one file operation at a time here: open()   *)
(* truncates the file, a document longer than the stream buffer reaches the  *)
(* file in part before the rest, and the close leaves the whole document.    *)
(*                                                                           *)
(* main:  "start" -> "cleaned" -> "kickoff" -> ("except" ->) "finally"       *)
(*        -> "display" -> "end", or "finally" -> "raised"                    *)
(* mpc:   "off" -> "while" -> "read" -> "render" -> "sleep" -> "while" ...   *)
(*        -> "done"; an exception in "read" or "render" leads to "while"     *)

\* what the session may find on disk: nothing, or the plan of an earlier run
SessionInitFiles ==
    { NoDoc("absent"),
      Doc("old", 0, << [id |-> "b", status |-> "completed", content |-> "X"] >>) }

\* what the Orchestrator sends: a new item, an update, an item of null fields
SessionInputs ==
    { << MkItem("a", Absent, Absent) >>,
      << MkItem("a", "completed", "X") >>,
      << MkItem("b", None, None) >> }

SessionInit ==
    /\ file \in SessionInitFiles
    /\ now = 0
    /\ todos = <<>>
    /\ explanation = ""
    /\ prev = file
    /\ result = NoResult("none", "")
    /\ pc = "idle"
    /\ inserted = FirstIds(file.todos, 1, <<>>)
    /\ writes = <<>>
    /\ main = "start"
    /\ raising = ""
    /\ monitoring = FALSE
    /\ mpc = "off"
    /\ last_content = NoContent
    /\ content = NoContent
    /\ display = <<>>
    /\ tool = NoTool
    /\ clock = 0
    /\ slept = 0
    /\ waited = 0

\* how os.remove ends
RemoveOutcomes == {"ok", "remove_fails"}

\* if os.path.exists(plan_file): try: os.remove(plan_file) except: warning
Cleanup ==
    /\ main = "start"
    /\ main' = "cleaned"
    /\ \E io \in RemoveOutcomes :
          IF file.kind # "absent" /\ io = "ok"
          THEN /\ file' = NoDoc("absent")
               /\ prev' = NoDoc("absent")
               /\ inserted' = <<>>
          ELSE UNCHANGED <<file, prev, inserted>>
    /\ UNCHANGED <<now, todos, explanation, result, pc, writes, tvars, timers>>
    /\ UNCHANGED <<raising, monitoring, mpc, last_content, content, display>>

\* monitoring = True; monitor_thread.start(); the try statement is entered
StartMonitor ==
    /\ main = "cleaned"
    /\ main' = "kickoff"
    /\ monitoring' = TRUE
    /\ mpc' = "while"
    /\ UNCHANGED <<file, now, todos, explanation, prev, result, pc, inserted, writes, tvars, timers>>
    /\ UNCHANGED <<raising, last_content, content, display>>

\* update_research_plan up to open(storage_file, "w"), which truncates the file
SaveOpen(t, e) ==
    /\ main = "kickoff"
    /\ pc = "idle"
    /\ now < MaxCalls
    /\ ~Rejected(t)
    /\ LoadExisting(file).exc = ""
    /\ pc' = "dumping"
    /\ now' = now + 1
    /\ todos' = t
    /\ explanation' = e
    /\ prev' = file
    /\ inserted' = FirstIds(t, 1, inserted)
    /\ file' = NoDoc("empty")
    /\ UNCHANGED <<result, writes, svars, tvars, timers>>

\* json.dump fills the stream buffer and the buffer is written out before the
\* close: a part of the document is in the file
SaveFlush ==
    /\ pc = "dumping"
    /\ file.kind = "empty"
    /\ file' = NoDoc("corrupt")
    /\ UNCHANGED <<now, todos, explanation, prev, result, pc, inserted, writes, svars, tvars, timers>>

\* the with statement closes the file; the summary is built and returned
SaveClose ==
    /\ pc = "dumping"
    /\ pc' = "returned"
    /\ file' = Doc(explanation, now, TodoList(prev, todos))
    /\ result' = Summary(explanation, TodoList(prev, todos))
    /\ writes' = WriteAttempts("ok")
    /\ UNCHANGED <<now, todos, explanation, prev, inserted, svars, tvars, timers>>

Save == \E t \in SessionInputs, e \in Explanations : SaveOpen(t, e)

\* result = crew.kickoff() returns
KickoffReturns ==
    /\ main = "kickoff"
    /\ pc = "idle"
    /\ main' = "finally"
    /\ UNCHANGED <<file, now, todos, explanation, prev, result, pc, inserted, writes, tvars, timers>>
    /\ UNCHANGED <<raising, monitoring, mpc, last_content, content, display>>

\* what may leave crew.kickoff(): an Exception, or a BaseException that
\* "except Exception" does not catch
Failures == {"Exception", "KeyboardInterrupt"}

KickoffRaises ==
    /\ main = "kickoff"
    /\ pc = "idle"
    /\ \E x \in Failures :
          /\ raising' = x
          /\ main' = IF x = "Exception" THEN "except" ELSE "finally"
    /\ UNCHANGED <<file, now, todos, explanation, prev, result, pc, inserted, writes, tvars, timers>>
    /\ UNCHANGED <<monitoring, mpc, last_content, content, display>>

\* except Exception as e: monitoring = False; raise
Except ==
    /\ main = "except"
    /\ monitoring' = FALSE
    /\ main' = "finally"
    /\ UNCHANGED <<file, now, todos, explanation, prev, result, pc, inserted, writes, tvars, timers>>
    /\ UNCHANGED <<raising, mpc, last_content, content, display>>

\* a slip of Finally: the flag is left as it is
FinallyKeepsFlag ==
    /\ main = "finally"
    /\ main' = IF raising = "" THEN "display" ELSE "raised"
    /\ UNCHANGED <<file, now, todos, explanation, prev, result, pc, inserted, writes, tvars, timers>>
    /\ UNCHANGED <<raising, monitoring, mpc, last_content, content, display>>

\* finally: monitoring = False; time.sleep(0.5); then the report, or the
\* exception goes on to the process boundary
Finally ==
    /\ main = "finally"
    /\ monitoring' = FALSE
    /\ main' = IF raising = "" THEN "display" ELSE "raised"
    /\ UNCHANGED <<file, now, todos, explanation, prev, result, pc, inserted, writes, tvars, timers>>
    /\ UNCHANGED <<raising, mpc, last_content, content, display>>

\* print(result): the final report
Report ==
    /\ main = "display"
    /\ main' = "end"
    /\ UNCHANGED <<file, now, todos, explanation, prev, result, pc, inserted, writes, tvars, timers>>
    /\ UNCHANGED <<raising, monitoring, mpc, last_content, content, display>>

\* a slip of MonitorWhile: while True
MonitorWhileTrue ==
    /\ mpc = "while"
    /\ mpc' = "read"
    /\ UNCHANGED <<file, now, todos, explanation, prev, result, pc, inserted, writes, tvars, timers>>
    /\ UNCHANGED <<main, raising, monitoring, last_content, content, display>>

\* while monitoring:
MonitorWhile ==
    /\ mpc = "while"
    /\ mpc' = IF monitoring THEN "read" ELSE "done"
    /\ UNCHANGED <<file, now, todos, explanation, prev, result, pc, inserted, writes, tvars, timers>>
    /\ UNCHANGED <<main, raising, monitoring, last_content, content, display>>

\* if os.path.exists(plan_file): with open(plan_file, "r") as f: content = f.read()
MonitorRead ==
    /\ mpc = "read"
    /\ CASE file.kind = "absent"     -> /\ mpc' = "sleep"
                                        /\ content' = content
         [] file.kind = "unreadable" -> /\ mpc' = "while"
                                        /\ content' = content
         [] OTHER                    -> /\ mpc' = "render"
                                        /\ content' = file
    /\ UNCHANGED <<file, now, todos, explanation, prev, result, pc, inserted, writes, tvars, timers>>
    /\ UNCHANGED <<main, raising, monitoring, last_content, display>>

\* the display loop raises TypeError on len(None) and on f"{None:12}"
RenderRaises(doc) ==
    \E j \in 1..Len(doc.todos) :
        \/ Get(doc.todos[j], "status", "unknown") = None
        \/ Get(doc.todos[j], "content", "No content") = None

\* if content != last_content and content.strip(): last_content = content;
\* data = json.loads(content); todos = data.get("todos", []); if todos: the
\* display is built and printed.  An exception skips the sleep.  A display
\* that raises has set first_render and, unless it was the first, cleared
\* the screen: the terminal shows no plan (NoDoc("blank")).  The local
\* content is dead after this step and is reset.
MonitorRender ==
    /\ mpc = "render"
    /\ IF content = last_content \/ content.kind = "empty"
       THEN /\ mpc' = "sleep"
            /\ UNCHANGED <<last_content, display>>
       ELSE /\ last_content' = content
            /\ IF content.kind # "object"
               THEN /\ mpc' = "while"
                    /\ display' = display
               ELSE IF content.todos = <<>>
               THEN /\ mpc' = "sleep"
                    /\ display' = display
               ELSE IF RenderRaises(content)
               THEN /\ mpc' = "while"
                    /\ display' = Append(display, NoDoc("blank"))
               ELSE /\ mpc' = "sleep"
                    /\ display' = Append(display, content)
    /\ content' = NoContent
    /\ UNCHANGED <<file, now, todos, explanation, prev, result, pc, inserted, writes, tvars, timers>>
    /\ UNCHANGED <<main, raising, monitoring>>

\* time.sleep(2)
MonitorSleep ==
    /\ mpc = "sleep"
    /\ mpc' = "while"
    /\ UNCHANGED <<file, now, todos, explanation, prev, result, pc, inserted, writes, tvars, timers>>
    /\ UNCHANGED <<main, raising, monitoring, last_content, content, display>>

SessionNext ==
    \/ Cleanup \/ StartMonitor
    \/ Save \/ SaveFlush \/ SaveClose \/ Return
    \/ KickoffReturns \/ KickoffRaises \/ Except \/ Finally \/ Report
    \/ MonitorWhile \/ MonitorRead \/ MonitorRender \/ MonitorSleep

SpecSession == SessionInit /\ [][SessionNext]_vars

\* a step of the Monitor thread
MonitorStep == MonitorWhile \/ MonitorRead \/ MonitorRender \/ MonitorSleep

\* the Monitor thread is scheduled: the check, the read and the display are
\* carried out and time.sleep(2) returns
SpecSessionFair == SessionInit /\ [][SessionNext]_vars /\ WF_vars(MonitorStep)

----------------------------------------------------------------------------
\* C14 as claimed: what a read of the Monitor gives is a whole document, the
\* one before the write in progress or the one after it, never an empty file
\* and never a part of a document.
AtomicVisibility == mpc = "render" => content.kind = "object"

----------------------------------------------------------------------------
\* how far the Monitor is from the end of its loop once the flag is cleared
Rank(p) ==
    CASE p = "read"   -> 4
      [] p = "render" -> 3
      [] p = "sleep"  -> 2
      [] p = "while"  -> 1
      [] p = "done"   -> 0
      [] OTHER        -> 5

\* the flag has been set and cleared again
Cleared == ~monitoring /\ mpc # "off"

\* C16: an iteration of the Monitor starts only from the check of the flag,
\* with the flag set, and ends at that check, so the flag is checked once per
\* iteration; once the flag is cleared every step of the Monitor brings it
\* nearer to the end of the loop, no read starts, and the loop ends.
CooperativeStop ==
    /\ [][/\ (mpc' = "read" /\ mpc # "read") => (mpc = "while" /\ monitoring)
          /\ (mpc = "while" /\ mpc' # mpc) => mpc' \in {"read", "done"}
          /\ (mpc \in {"read", "render", "sleep"} /\ mpc' # mpc)
                => mpc' \in {"render", "sleep", "while"}
          /\ Cleared => (mpc' = mpc \/ Rank(mpc') < Rank(mpc))]_vars
    /\ (Cleared ~> mpc = "done")

\* the flag was cleared by a failure of the Orchestrator and the Monitor,
\* which had rendered a plan, has left its loop
CooperativeStopWitness ==
    /\ main = "raised"
    /\ ~monitoring
    /\ mpc = "done"
    /\ display # <<>>

----------------------------------------------------------------------------
\* C17 as claimed: when the Monitor thread is started no plan of an earlier
\* run is on disk, and the first call of the session finds no plan to merge
\* into.
FreshSession ==
    /\ main = "cleaned" => file.kind = "absent"
    /\ (now = 1 /\ pc \in {"dumping", "returned"}) => prev.kind = "absent"

----------------------------------------------------------------------------
\* C18: when an exception leaves crew.kickoff() it is not swallowed, the
\* report is never displayed, and the flag is cleared before the exception
\* reaches the process boundary; when crew.kickoff() returns the flag is
\* cleared before the report is displayed.
OrchestratorFailure ==
    /\ raising # "" => main \in {"except", "finally", "raised"}
    /\ main \in {"raised", "display", "end"} => ~monitoring

\* the Orchestrator has written a plan and failed; the exception has left
\* the try statement
OrchestratorFailureWitness ==
    /\ main = "raised"
    /\ raising = "Exception"
    /\ file.kind = "object"
    /\ now > 0
    /\ ~monitoring

----------------------------------------------------------------------------
(* The tools that call the external service: web_search_tool and             *)
(* get_webpage_content (src/tools/web_search.py), one request each, and      *)
(* web_research_tool (src/tools/web_research.py), which starts a job and     *)
(* polls it.  The service answers whatever it likes.                         *)

\* max_wait_seconds
MaxWaitSeconds == 300

\* poll_interval
PollInterval == 5

\* timeout=30 of the poll request
RequestTimeout == 30

\* os.getenv("EXAAI_API_KEY"): not set, set to nothing, set
ApiKeys == {None, "", "key"}

StatusCodes == {200, 201, 500}

\* requests.exceptions.Timeout and another exception of requests
RequestExceptions == {"Timeout", "ConnectionError"}

\* what response.json() gives for a search or a fetch: an object with a list
\* of result objects, an object without results, an object whose results is
\* null, no JSON at all, JSON that is no object
SearchBodies == {"results", "no_results", "null_results", "not_json", "not_object"}

SearchAnswers ==
    { Answer(x, 0, "", "", "") : x \in RequestExceptions }
    \cup { Answer("", c, b, "", "") : c \in StatusCodes, b \in SearchBodies }

\* the answer to the request that starts a job: an object with a researchId,
\* an object without one, no JSON, JSON that is no object
PostBodies == {"id", "no_id", "not_json", "not_object"}

PostAnswers ==
    { Answer(x, 0, "", "", "") : x \in RequestExceptions }
    \cup { Answer("", c, b, "", "") : c \in StatusCodes, b \in PostBodies }

\* the status of a job; "queued" stands for a status the tool does not know
PollStatuses == {"completed", "failed", "canceled", "running", "pending", "queued", Absent}

\* the output of a job: an object, no such key, null
PollOutputs == {"object", Absent, None}

PollAnswers ==
    { Answer(x, 0, "", "", "") : x \in RequestExceptions }
    \cup { Answer("", c, b, "", "") : c \in StatusCodes, b \in {"not_json", "not_object"} }
    \cup { Answer("", c, "object", st, o) : c \in {200, 500}, st \in PollStatuses, o \in PollOutputs }

\* how long a poll request takes: no time, or all the time it is given
RequestDurations == {0, RequestTimeout}

\* what the try block of web_search_tool and of get_webpage_content (the same
\* statements) returns, "error" for a JSON object with an "error" field and
\* "results" for the formatted results, or the exception exc that leaves it
SearchTry(api_key, r) ==
    IF Falsy(api_key) THEN [exc |-> "", out |-> "error"]
    ELSE IF r.exc # "" THEN [exc |-> r.exc, out |-> ""]
    ELSE IF r.code # 200 THEN [exc |-> "", out |-> "error"]
    ELSE CASE r.body = "not_json"     -> [exc |-> "JSONDecodeError", out |-> ""]
           [] r.body = "not_object"   -> [exc |-> "AttributeError", out |-> ""]
           [] r.body = "null_results" -> [exc |-> "TypeError", out |-> ""]
           [] OTHER                   -> [exc |-> "", out |-> "results"]

\* a slip of SearchExcept: no except clause
SearchNoExcept(t) == t

\* except Exception as e: return json.dumps({"error": str(e)})
SearchExcept(t) == IF t.exc # "" THEN [exc |-> "", out |-> "error"] ELSE t

web_search_tool(api_key, r) == SearchExcept(SearchTry(api_key, r))

get_webpage_content(api_key, r) == SearchExcept(SearchTry(api_key, r))

\* the tool has run: it has returned a string or an exception has left it
Ran(name, api_key, r, t) ==
    [NoTool EXCEPT !.name = name, !.key = api_key, !.resp = r,
                   !.pc = IF t.exc # "" THEN "raised" ELSE "returned",
                   !.out = t.out]

\* the variables of the plan store
pvars == <<file, now, todos, explanation, prev, result, pc, inserted, writes>>

WebSearch ==
    /\ tool.pc = "idle"
    /\ \E api_key \in ApiKeys, r \in SearchAnswers :
          tool' = Ran("web_search", api_key, r, web_search_tool(api_key, r))
    /\ UNCHANGED <<pvars, svars, clock, timers>>

GetWebpageContent ==
    /\ tool.pc = "idle"
    /\ \E api_key \in ApiKeys, r \in SearchAnswers :
          tool' = Ran("get_webpage_content", api_key, r, get_webpage_content(api_key, r))
    /\ UNCHANGED <<pvars, svars, clock, timers>>

\* return "research failed", on every path but one
ResearchFailed(t) == [t EXCEPT !.pc = "returned", !.out = "research failed"]

\* api_key = os.getenv("EXAAI_API_KEY"); if not api_key: return "research failed"
ResearchStart ==
    /\ tool.pc = "idle"
    /\ \E api_key \in ApiKeys :
          LET t == [NoTool EXCEPT !.name = "web_research", !.key = api_key]
          IN  tool' = IF Falsy(api_key) THEN ResearchFailed(t) ELSE [t EXCEPT !.pc = "post"]
    /\ UNCHANGED <<pvars, svars, clock, timers>>

\* requests.post(...); status_code != 201; init_data.get("researchId");
\* start_time = time.time()
ResearchPost ==
    /\ tool.pc = "post"
    /\ \E r \in PostAnswers :
          LET t == [tool EXCEPT !.resp = r]
          IN  tool' = IF r.exc = "" /\ r.code = 201 /\ r.body = "id"
                      THEN [t EXCEPT !.pc = "loop"]
                      ELSE ResearchFailed(t)
    /\ clock' = 0
    /\ UNCHANGED <<pvars, svars, timers>>

\* a slip of ResearchCheck: the timeout allows for one more sleep
ResearchCheckLate ==
    /\ tool.pc = "loop"
    /\ tool' = IF clock > MaxWaitSeconds + PollInterval
               THEN ResearchFailed(tool) ELSE [tool EXCEPT !.pc = "sleep"]
    /\ UNCHANGED <<pvars, svars, clock, timers>>

\* elapsed_time = time.time() - start_time; if elapsed_time > max_wait_seconds
ResearchCheck ==
    /\ tool.pc = "loop"
    /\ tool' = IF clock > MaxWaitSeconds THEN ResearchFailed(tool) ELSE [tool EXCEPT !.pc = "sleep"]
    /\ UNCHANGED <<pvars, svars, clock, timers>>

\* time.sleep(poll_interval)
ResearchSleep ==
    /\ tool.pc = "sleep"
    /\ tool' = [tool EXCEPT !.pc = "get"]
    /\ clock' = clock + PollInterval
    /\ UNCHANGED <<pvars, svars, timers>>

\* a slip of Continue: every status that does not end the job polls again
ContinueUnlessEnded(status) == status \notin {"completed", "failed", "canceled"}

\* elif status == "running" or status == "pending": continue
Continue(status) == status \in {"running", "pending"}

\* poll_response = requests.get(...) and what follows it in the loop
ResearchPoll ==
    /\ tool.pc = "get"
    /\ \E r \in PollAnswers :
          LET t == [tool EXCEPT !.resp = r, !.polls = tool.polls + 1]
          IN  tool' =
                IF r.exc # "" \/ r.code # 200 \/ r.body # "object" THEN ResearchFailed(t)
                ELSE IF r.status = "completed"
                THEN IF r.output = None
                     THEN ResearchFailed(t)
                     ELSE [t EXCEPT !.pc = "returned", !.out = "content"]
                ELSE IF r.status \in {"failed", "canceled"} THEN ResearchFailed(t)
                ELSE IF Continue(r.status) THEN [t EXCEPT !.pc = "loop"]
                ELSE ResearchFailed(t)
    /\ \E d \in RequestDurations : clock' = clock + d
    /\ UNCHANGED <<pvars, svars, timers>>

ToolsInit ==
    /\ file = NoDoc("absent")
    /\ now = 0
    /\ todos = <<>>
    /\ explanation = ""
    /\ prev = file
    /\ result = NoResult("none", "")
    /\ pc = "idle"
    /\ inserted = <<>>
    /\ writes = <<>>
    /\ NoSession

ToolsNext ==
    \/ WebSearch \/ GetWebpageContent
    \/ ResearchStart \/ ResearchPost \/ ResearchCheck \/ ResearchSleep \/ ResearchPoll

SpecTools == ToolsInit /\ [][ToolsNext]_vars

\* every request returns or times out, time.sleep returns
SpecToolsFair == ToolsInit /\ [][ToolsNext]_vars /\ WF_vars(ToolsNext)

----------------------------------------------------------------------------
\* the request of a search or a fetch has failed: no key, an exception of
\* requests, a status code other than 200, a body the tool cannot read
SearchFailure(t) ==
    \/ Falsy(t.key)
    \/ t.resp.exc # ""
    \/ t.resp.code # 200
    \/ t.resp.body \notin {"results", "no_results"}

\* the same for the research tool, whose latest request started the job
\* (201 expected) or polled it (200 expected)
ResearchFailure(t) ==
    \/ Falsy(t.key)
    \/ t.resp.exc # ""
    \/ t.resp.code # (IF t.polls = 0 THEN 201 ELSE 200)
    \/ t.resp.body \notin {"id", "object"}

\* C19: no exception leaves a tool; when the key is missing, the request
\* raises or times out, the status code is not the expected one or the body
\* cannot be read, the search and the fetch tool return a JSON object with an
\* "error" field and the research tool returns "research failed".
ToolsNeverRaise ==
    /\ tool.pc # "raised"
    /\ (tool.pc = "returned" /\ tool.name \in {"web_search", "get_webpage_content"}
          /\ SearchFailure(tool)) => tool.out = "error"
    /\ (tool.pc = "returned" /\ tool.name = "web_research"
          /\ ResearchFailure(tool)) => tool.out = "research failed"

\* a search whose request timed out has returned the error object
ToolsNeverRaiseWitness ==
    /\ tool.name = "web_search"
    /\ tool.pc = "returned"
    /\ tool.key = "key"
    /\ tool.resp.exc = "Timeout"
    /\ tool.out = "error"

----------------------------------------------------------------------------
\* the latest poll of the research tool was answered, with code 200, by an
\* object that gives status st
Reports(t, st) ==
    /\ t.polls > 0
    /\ t.resp.exc = ""
    /\ t.resp.code = 200
    /\ t.resp.body = "object"
    /\ t.resp.status = st

ResearchReturned == tool.name = "web_research" /\ tool.pc = "returned"

\* C20 as claimed: the research tool returns the content of the job exactly
\* when a poll reports status completed, and the failure string otherwise.
ContentExactlyWhenCompleted ==
    ResearchReturned =>
        /\ tool.out = "content" <=> Reports(tool, "completed")
        /\ tool.out \in {"content", "research failed"}

\* C20, amended: every invocation of the research tool returns; it polls
\* again only after a poll reported running or pending; it returns the
\* content of the job exactly when a poll reports status completed with an
\* output that is an object or is left out, and the failure string in every
\* other case, a completed job whose output is null among them.
ResearchProtocol ==
    /\ [][(tool.name = "web_research" /\ tool.polls > 0 /\ tool'.polls = tool.polls + 1)
            => (Reports(tool, "running") \/ Reports(tool, "pending"))]_vars
    /\ [](ResearchReturned =>
            /\ tool.out = "content"
                  <=> (Reports(tool, "completed") /\ tool.resp.output # None)
            /\ tool.out \in {"content", "research failed"})
    /\ (tool.name = "web_research" ~> tool.pc = "returned")

\* the research tool has returned the content of a job it polled more than
\* once
ResearchProtocolWitness ==
    /\ ResearchReturned
    /\ tool.polls >= 2
    /\ Reports(tool, "completed")
    /\ tool.out = "content"

----------------------------------------------------------------------------
\* C21 as claimed: an iteration of the Monitor that has read the file, or has
\* tried to, sleeps before the loop comes back to the flag, also when the
\* read or the parse fails, so that a sleep lies between any two reads.
SleepEveryIteration ==
    [][(mpc \in {"read", "render"} /\ mpc' \notin {mpc, "render"}) => mpc' = "sleep"]_vars

----------------------------------------------------------------------------
(* The session with its two sleeps timed, in half seconds: time.sleep(2) of  *)
(* the Monitor returns after four of them, time.sleep(0.5) of the main       *)
(* thread after one.  Time passes (Tick) while a thread sleeps and no sleep  *)
(* is over, and the Monitor's own steps between two sleeps take no time,     *)
(* which is the case most favourable to a bounded wait of the main thread.   *)
(* main: ... "finally" -> "waiting" -> "display" or "raised"                 *)

\* time.sleep(2), in half seconds
MonitorInterval == 4

\* time.sleep(0.5), in half seconds
ShutdownWait == 1

\* time.sleep(2) returns
TimedSleep ==
    /\ mpc = "sleep"
    /\ slept = MonitorInterval
    /\ mpc' = "while"
    /\ slept' = 0
    /\ UNCHANGED <<pvars, tvars, waited>>
    /\ UNCHANGED <<main, raising, monitoring, last_content, content, display>>

\* finally: monitoring = False, and time.sleep(0.5) begins
ClearFlag ==
    /\ main = "finally"
    /\ monitoring' = FALSE
    /\ main' = "waiting"
    /\ UNCHANGED <<pvars, tvars, timers>>
    /\ UNCHANGED <<raising, mpc, last_content, content, display>>

\* time.sleep(0.5) returns; logger.info("Plan monitoring stopped"); then the
\* report, or the exception goes on to the process boundary
Waited ==
    /\ main = "waiting"
    /\ waited = ShutdownWait
    /\ main' = IF raising = "" THEN "display" ELSE "raised"
    /\ waited' = 0
    /\ UNCHANGED <<pvars, tvars, slept>>
    /\ UNCHANGED <<raising, monitoring, mpc, last_content, content, display>>

\* half a second passes: some thread sleeps, and the Monitor is not in the
\* middle of an iteration
Tick ==
    /\ mpc = "sleep" \/ main = "waiting"
    /\ mpc \notin {"while", "read", "render"}
    /\ mpc = "sleep" => slept < MonitorInterval
    /\ main = "waiting" => waited < ShutdownWait
    /\ slept' = IF mpc = "sleep" THEN slept + 1 ELSE slept
    /\ waited' = IF main = "waiting" THEN waited + 1 ELSE waited
    /\ UNCHANGED <<pvars, svars, tvars>>

TimedNext ==
    \/ Cleanup \/ StartMonitor
    \/ Save \/ SaveFlush \/ SaveClose \/ Return
    \/ KickoffReturns \/ KickoffRaises \/ Except \/ ClearFlag \/ Waited \/ Report
    \/ MonitorWhile \/ MonitorRead \/ MonitorRender \/ TimedSleep
    \/ Tick

SpecTimed == SessionInit /\ [][TimedNext]_vars

\* C22 as claimed: when the main thread has waited and goes on to log that
\* the monitoring stopped and to display the report, the Monitor has left
\* its loop.
MonitorStoppedAtReport == main \in {"display", "end"} => mpc = "done"

----------------------------------------------------------------------------
\* C23 as claimed: no poll is issued later than the timeout after polling
\* started.
PollWithinTimeout == tool.pc = "get" => clock <= MaxWaitSeconds

\* the loop has found the timeout exceeded
TimedOut == tool.pc = "loop" /\ clock > MaxWaitSeconds

\* C23: the research tool sleeps one poll interval before each poll, and a
\* poll is issued only after such a sleep; the timeout is looked at before
\* the sleep only, so a poll is issued at most timeout plus one poll interval
\* after polling started; when the loop finds the timeout exceeded the tool
\* returns "research failed" without another poll.
ResearchTimeoutBound ==
    /\ [](tool.pc = "get" => clock <= MaxWaitSeconds + PollInterval)
    /\ [][(tool'.pc = "get" /\ tool.pc # "get")
            => (tool.pc = "sleep" /\ clock' = clock + PollInterval)]_vars
    /\ [][(TimedOut /\ tool' # tool) => tool' = ResearchFailed(tool)]_vars

\* the job was still running at the latest poll, which was issued after the
\* timeout, and the tool has returned on the timeout
ResearchTimeoutBoundWitness ==
    /\ ResearchReturned
    /\ tool.out = "research failed"
    /\ Reports(tool, "running")
    /\ tool.polls > MaxWaitSeconds \div (PollInterval + RequestTimeout)
    /\ clock > MaxWaitSeconds + PollInterval

----------------------------------------------------------------------------
\* the upserts have stopped, and the latest one left a document with items
FinalDocument ==
    /\ now = MaxCalls
    /\ pc = "idle"
    /\ file.kind = "object"
    /\ file.todos # <<>>

\* the latest rendering of the Monitor shows the stored document
Rendered == display # <<>> /\ display[Len(display)] = file

\* the flag is set and stays so for as long as the main thread remains here:
\* the orchestrator is running
Running == monitoring /\ main = "kickoff"

\* C24 as claimed: once the upserts have stopped and left a document with
\* items, the Monitor, while the flag stays set, eventually renders that
\* document, whatever it read before and whatever the values of the fields.
EventualDisplay == FinalDocument ~> (~Running \/ Rendered)

----------------------------------------------------------------------------
\* C25 as claimed: when the write of an upsert fails and the call returns
\* the failure, the stored document is still the complete document that
\* existed before the call.
StateUnchangedOnPersistFailure ==
    (pc = "returned" /\ result.kind = "save_failed" /\ prev.kind = "object") => file = prev

\* C26 as claimed: every item of a document written by an upsert has the
\* fields id, status and content and no other, none of them null.
WellFormedRecords ==
    Written => \A j \in 1..Len(file.todos) :
                  /\ DOMAIN file.todos[j] = {"id", "status", "content"}
                  /\ \A k \in DOMAIN file.todos[j] : file.todos[j][k] # None

====
